---------------------------- MODULE Spec2Model ----------------------------
(***************************************************************************)
(* Model of the skyblock-bz-flip backend (live-API server and legacy       *)
(* scrape server) and of the client App.jsx: its recomputation, filter and *)
(* sort steps, its preferences and its requests to the endpoint.           *)
(*                                                                         *)
(* Numbers.  A JavaScript value that takes part in arithmetic is a record  *)
(* [k, v]: k = "num" with the integer v, k = "nan" (NaN), k = "undef"      *)
(* (undefined, an absent property) or k = "null".  Prices and volumes are  *)
(* integers.  A tax rate is held in units of 1/TaxUnit percent, so 1.125   *)
(* percent is 1125; a tax multiplier, a margin and a coinsPerHour are held *)
(* in units of 1/Scale, so a margin of 8.875 coins is 887500.  Arithmetic  *)
(* is exact: binary floating-point rounding is not modelled.               *)
(***************************************************************************)
EXTENDS Integers, Sequences, FiniteSets, TLC

VARIABLES
    deployment,  \* which server file runs: "api" or "scrape"
    cache,       \* NodeCache contents: key -> [value, age]
    reqs,        \* the startup prefetch (0) and the request slots (1..MaxReqs)
    resp,        \* the response written last (res.json, or the startup log line)
    dSnap,       \* derivation harness: the upstream snapshot (sequence of products)
    dTax,        \* derivation harness: the taxRate argument
    dOut,        \* derivation harness: outcome of the derivation
    dClient,     \* derivation harness: the client's recomputed items
    appItems,    \* App state items: the list of the last successful response
    loading,     \* App state loading
    error,       \* App state error: <<>> for null, <<message>> otherwise
    lastUpdated, \* App state lastUpdated: <<>> for null, <<time>> otherwise
    filters,     \* App state filters: filter key -> text of the input
    sortBy,      \* App state sortBy
    sortDir,     \* App state sortDir
    appTax,      \* App state tax
    stored,      \* localStorage item skyblock_flips_prefs
    appPhase,    \* "unloaded", "rendered", "mounted", or "crashed" (a render threw)
    fetches,     \* the calls of fetchData, in the order they were made
    now,         \* the client's clock, in refresh intervals
    arrived      \* the outcome of the fetchData call that ended last

appVars == <<appItems, loading, error, lastUpdated>>
viewVars == <<filters, sortBy, sortDir, appTax, stored, appPhase>>
fetchVars == <<fetches, now, arrived>>
clientVars == <<appVars, viewVars, fetchVars>>

vars == <<deployment, cache, reqs, resp, dSnap, dTax, dOut, dClient, clientVars>>

serverVars == <<deployment, cache, reqs, resp>>
deriveVars == <<dSnap, dTax, dOut, dClient>>

-----------------------------------------------------------------------------
(* Bounds of the model *)

TickStep == 10
MaxReqs == 2
BigLen == 103
MaxFields == 1
MaxFetches == 3

-----------------------------------------------------------------------------
(* Program constants *)

StdTTL == 10
ScrapeTTL == 30
GotoTimeout == 30
HoursPerWeek == 168
LiquidityFloor == 10
TopCount == 100
TopOrders == 1
Percent == 100
TaxUnit == 1000
DefaultTaxRate == 1250
ClientDefaultTax == 1125

Scale == Percent * TaxUnit

-----------------------------------------------------------------------------
(* JavaScript numbers *)

Num(n) == [k |-> "num", v |-> n]
NaN == [k |-> "nan", v |-> 0]
Undefined == [k |-> "undef", v |-> 0]
Null == [k |-> "null", v |-> 0]

IsNum(x) == x.k = "num"

\* ToNumber: undefined -> NaN, null -> +0
ToNumber(x) ==
    CASE x.k = "num" -> x
      [] x.k = "null" -> Num(0)
      [] OTHER -> NaN

jsAdd(a, b) ==
    LET x == ToNumber(a)
        y == ToNumber(b)
    IN IF IsNum(x) /\ IsNum(y) THEN Num(x.v + y.v) ELSE NaN

jsSub(a, b) ==
    LET x == ToNumber(a)
        y == ToNumber(b)
    IN IF IsNum(x) /\ IsNum(y) THEN Num(x.v - y.v) ELSE NaN

\* a * b where exactly one factor carries the 1/Scale unit, or none
jsMul(a, b) ==
    LET x == ToNumber(a)
        y == ToNumber(b)
    IN IF IsNum(x) /\ IsNum(y) THEN Num(x.v * y.v) ELSE NaN

\* relational operators: any comparison with NaN is false
jsGt(a, b) ==
    LET x == ToNumber(a)
        y == ToNumber(b)
    IN IsNum(x) /\ IsNum(y) /\ x.v > y.v

jsLe(a, b) ==
    LET x == ToNumber(a)
        y == ToNumber(b)
    IN IsNum(x) /\ IsNum(y) /\ x.v <= y.v

\* Math.min(a, b): NaN if either argument is NaN
MathMin(a, b) ==
    LET x == ToNumber(a)
        y == ToNumber(b)
    IN IF IsNum(x) /\ IsNum(y) THEN Num(IF x.v <= y.v THEN x.v ELSE y.v) ELSE NaN

\* floor of n / d for d > 0, also for negative n
FloorDiv(n, d) == IF n >= 0 THEN n \div d ELSE -((-n + d - 1) \div d)

\* Math.round(x / d): the nearest integer, a tie going to +Infinity
RoundDiv(x, d) ==
    LET n == ToNumber(x)
    IN IF IsNum(n) THEN Num(FloorDiv(2 * n.v + d, 2 * d)) ELSE NaN

\* number / d for a positive integer d (exact when d = 1, the only divisor
\* the call sites of getMeanPrice produce)
jsDivInt(x, d) ==
    LET n == ToNumber(x)
    IN IF IsNum(n) THEN Num(FloorDiv(n.v, d)) ELSE NaN

-----------------------------------------------------------------------------
(* Upstream data.  A product is                                            *)
(*   [product_id, quick_status, buy_summary, sell_summary]                 *)
(* quick_status is [present, buyMovingWeek, sellMovingWeek] (present =     *)
(* FALSE: the property is missing); a summary is a sequence of             *)
(* [pricePerUnit |-> value], best price first.                             *)

Order(price) == [pricePerUnit |-> price]

QuickStatus(b, s) == [present |-> TRUE, buyMovingWeek |-> b, sellMovingWeek |-> s]
NoQuickStatus == [present |-> FALSE, buyMovingWeek |-> Undefined, sellMovingWeek |-> Undefined]

Product(id, qs, buys, sells) ==
    [product_id |-> id, quick_status |-> qs, buy_summary |-> buys, sell_summary |-> sells]

-----------------------------------------------------------------------------
(* getBazaarData: the per-product derivation *)

RECURSIVE SumPrices(_, _)
\* the for loop of getMeanPrice: sum of the first limit pricePerUnit values
SumPrices(summary, limit) ==
    IF limit = 0 THEN Num(0)
    ELSE jsAdd(SumPrices(summary, limit - 1), summary[limit].pricePerUnit)

getMeanPrice(summary, count) ==
    IF Len(summary) = 0 THEN Num(0)
    ELSE LET limit == IF Len(summary) <= count THEN Len(summary) ELSE count
         IN jsDivInt(SumPrices(summary, limit), limit)

\* High price: top of the buy_summary book
buyPriceOf(product) == getMeanPrice(product.buy_summary, TopOrders)

\* Low price: top of the sell_summary book
sellPriceOf(product) == getMeanPrice(product.sell_summary, TopOrders)

\* if (buyPrice <= 0 || sellPrice <= 0) return;
SkippedByPrice(product) ==
    \/ jsLe(buyPriceOf(product), Num(0))
    \/ jsLe(sellPriceOf(product), Num(0))

\* 1 - taxRate / 100, in units of 1/Scale
taxMultiplierOf(taxRate) ==
    IF IsNum(ToNumber(taxRate)) THEN Num(Scale - ToNumber(taxRate).v) ELSE NaN

\* faulty variant of marginOf: the tax charged on both legs
marginOf_taxBothLegs(product, taxRate) ==
    jsMul(jsSub(buyPriceOf(product), sellPriceOf(product)), taxMultiplierOf(taxRate))

\* (buyPrice * taxMultiplier) - sellPrice, in units of 1/Scale
marginOf(product, taxRate) ==
    jsSub(jsMul(buyPriceOf(product), taxMultiplierOf(taxRate)),
          jsMul(sellPriceOf(product), Num(Scale)))

instabuyHourlyOf(product) == RoundDiv(product.quick_status.buyMovingWeek, HoursPerWeek)

instasellHourlyOf(product) == RoundDiv(product.quick_status.sellMovingWeek, HoursPerWeek)

\* margin * Math.min(instabuyHourly, instasellHourly), in units of 1/Scale
coinsPerHourOf(product, taxRate) ==
    jsMul(marginOf(product, taxRate),
          MathMin(instabuyHourlyOf(product), instasellHourlyOf(product)))

\* reading quick_status.buyMovingWeek of a product without quick_status
\* raises a TypeError; the read is reached only past the price check
ProductThrows(product) ==
    /\ ~SkippedByPrice(product)
    /\ ~product.quick_status.present

\* faulty variant of Qualifies: the liquidity floor taken as >= 10
Qualifies_atFloor(product, taxRate) ==
    /\ ~SkippedByPrice(product)
    /\ product.quick_status.present
    /\ jsGt(marginOf(product, taxRate), Num(0))
    /\ jsLe(Num(LiquidityFloor),
            MathMin(instabuyHourlyOf(product), instasellHourlyOf(product)))

\* if (margin > 0 && Math.min(instabuyHourly, instasellHourly) > 10)
Qualifies(product, taxRate) ==
    /\ ~SkippedByPrice(product)
    /\ product.quick_status.present
    /\ jsGt(marginOf(product, taxRate), Num(0))
    /\ jsGt(MathMin(instabuyHourlyOf(product), instasellHourlyOf(product)),
            Num(LiquidityFloor))

\* product_id.replace(/_/g, ' ') on the product ids of the model
TitleOf(product_id) ==
    CASE product_id = "ENCHANTED_RUNE" -> "ENCHANTED RUNE"
      [] product_id = "DIAMOND_PICKAXE" -> "DIAMOND PICKAXE"
      [] OTHER -> product_id

\* the object pushed on cards (href and img, display links built from the
\* product id alone, are left out)
CardOf(product, taxRate) ==
    [id |-> product.product_id,
     title |-> TitleOf(product.product_id),
     buy |-> sellPriceOf(product),
     sell |-> buyPriceOf(product),
     instabuy |-> instabuyHourlyOf(product),
     instasell |-> instasellHourlyOf(product),
     margin |-> marginOf(product, taxRate),
     coinsPerHour |-> coinsPerHourOf(product, taxRate),
     raw |-> product.quick_status]

\* Object.values(products).forEach(...): the cards pushed, in product order
CollectCards(products, taxRate) ==
    LET pushed == SelectSeq(products, LAMBDA product : Qualifies(product, taxRate))
    IN [i \in 1..Len(pushed) |-> CardOf(pushed[i], taxRate)]

\* (a, b) => b.coinsPerHour - a.coinsPerHour; a NaN result counts as 0
compareCards(a, b) ==
    LET d == jsSub(b.coinsPerHour, a.coinsPerHour)
    IN IF IsNum(d) THEN d.v ELSE 0

\* faulty variant of SortCards: the cards left in product order
SortCards_unsorted(cards) == cards

\* cards.sort(compareCards).  Array.prototype.sort is stable; for a
\* consistent comparator its result puts cards[i] behind the cards that
\* compare before it and the equal ones that precede it in the input.
SortCards(cards) ==
    LET n == Len(cards)
        place == [i \in 1..n |->
                    1 + Cardinality({j \in 1..n : compareCards(cards[j], cards[i]) < 0})
                      + Cardinality({j \in 1..(i - 1) :
                                        compareCards(cards[j], cards[i]) = 0})]
    IN [p \in 1..n |-> cards[CHOOSE i \in 1..n : place[i] = p]]

\* cards.slice(0, 100)
TopCards(cards) ==
    SubSeq(cards, 1, IF Len(cards) <= TopCount THEN Len(cards) ELSE TopCount)

DerivationThrows(products) == \E i \in 1..Len(products) : ProductThrows(products[i])

\* the body of getBazaarData after a successful fetch with success = true
DeriveCards(products, taxRate) ==
    TopCards(SortCards(CollectCards(products, taxRate)))

\* what the forEach callback does with one product: "returned" at the price
\* check, "threw" at the quick_status read, or "computed" its locals
LocalsOf(product, taxRate) ==
    IF SkippedByPrice(product)
    THEN [state |-> "returned", margin |-> NaN, instabuyHourly |-> NaN,
          instasellHourly |-> NaN, coinsPerHour |-> NaN, pushed |-> FALSE]
    ELSE IF ProductThrows(product)
    THEN [state |-> "threw", margin |-> marginOf(product, taxRate),
          instabuyHourly |-> NaN, instasellHourly |-> NaN, coinsPerHour |-> NaN,
          pushed |-> FALSE]
    ELSE [state |-> "computed", margin |-> marginOf(product, taxRate),
          instabuyHourly |-> instabuyHourlyOf(product),
          instasellHourly |-> instasellHourlyOf(product),
          coinsPerHour |-> coinsPerHourOf(product, taxRate),
          pushed |-> Qualifies(product, taxRate)]

\* the products the forEach loop reaches: all, or up to the first that throws
ReachedCount(products) ==
    IF DerivationThrows(products)
    THEN CHOOSE i \in 1..Len(products) :
            /\ ProductThrows(products[i])
            /\ \A j \in 1..(i - 1) : ~ProductThrows(products[j])
    ELSE Len(products)

-----------------------------------------------------------------------------
(* Client recomputation step (App.jsx, filtered) *)

\* value || 0
OrZero(x) == IF IsNum(x) /\ x.v # 0 THEN x ELSE Num(0)

\* the item returned by the map callback, under the client's tax
Recompute(item, tax) ==
    LET highPrice == OrZero(item.buy)
        lowPrice == OrZero(item.sell)
        taxMultiplier == taxMultiplierOf(tax)
        newMargin == jsSub(jsMul(highPrice, taxMultiplier), jsMul(lowPrice, Num(Scale)))
        volume == MathMin(OrZero(item.instabuy), OrZero(item.instasell))
        newCPH == jsMul(newMargin, volume)
    IN [item EXCEPT !.margin = newMargin, !.coinsPerHour = newCPH]

RecomputeAll(items, tax) == [i \in 1..Len(items) |-> Recompute(items[i], tax)]

-----------------------------------------------------------------------------
(* Inputs of the derivation harness *)

Books ==
    {<<>>, <<Order(Num(90))>>, <<Order(Num(100))>>, <<Order(Undefined)>>,
     <<Order(Num(100)), Order(Num(95))>>}

Volumes == {Undefined, Num(0), Num(840), Num(1763), Num(1764), Num(2016)}

QuickStatuses == {NoQuickStatus} \cup {QuickStatus(b, s) : b \in Volumes, s \in Volumes}

\* every quote over the books and volumes above
Quotes ==
    {Product("ENCHANTED_RUNE", qs, b, s) : qs \in QuickStatuses, b \in Books, s \in Books}

GoodQuote(id, high, low, volume) ==
    Product(id, QuickStatus(Num(volume), Num(volume)), <<Order(Num(high))>>, <<Order(Num(low))>>)

\* a few products to combine: two with equal coinsPerHour, one below the
\* liquidity floor, one without quick_status, one without a numeric price
Mixed ==
    <<GoodQuote("ENCHANTED_RUNE", 100, 90, 2016),
      GoodQuote("DIAMOND_PICKAXE", 100, 90, 2016),
      GoodQuote("WHEAT", 200, 90, 4032),
      GoodQuote("COAL", 100, 90, 840),
      Product("BROKEN", NoQuickStatus, <<Order(Num(100))>>, <<Order(Num(90))>>),
      Product("PRICELESS", QuickStatus(Num(2016), Num(2016)), <<Order(Undefined)>>,
              <<Order(Num(90))>>)>>

\* product ids are the keys of the products object: distinct in a snapshot
MixedSnapshots ==
    {<<>>} \cup
    {<<Mixed[i], Mixed[j], Mixed[k]>> :
        <<i, j, k>> \in {t \in (1..Len(Mixed)) \X (1..Len(Mixed)) \X (1..Len(Mixed)) :
                           t[1] # t[2] /\ t[1] # t[3] /\ t[2] # t[3]}}

\* a snapshot of BigLen products of which all but every 50th qualify, with
\* coinsPerHour neither monotone in the position nor free of ties
BigSnapshot(k) ==
    [i \in 1..BigLen |->
        GoodQuote("ITEM_" \o ToString(i),
                  100 + ((i * k) % 11),
                  90,
                  IF i % 50 = 0 THEN 840 ELSE 1764 + HoursPerWeek * (i % 3))]

BigSnapshots == {BigSnapshot(k) : k \in {3, 7}}

DeriveSnapshots == {<<q>> : q \in Quotes} \cup MixedSnapshots \cup BigSnapshots

\* tax rates in units of 1/TaxUnit percent: 0, 1.125, 1.25, 100, and NaN
DeriveTaxes == {Num(0), Num(1125), Num(1250), Num(100 * TaxUnit), NaN}

ClientTaxes == {Num(0), Num(1125), Num(100 * TaxUnit)}

NoOutcome == [status |-> "none", cards |-> <<>>, locals |-> <<>>]

NoClient == [status |-> "none", tax |-> Num(0), items |-> <<>>]

-----------------------------------------------------------------------------
(* Derivation harness: one snapshot, one tax rate, the derivation applied, *)
(* then the client recomputation applied to the list it returned.          *)

DeriveInit ==
    /\ dSnap \in DeriveSnapshots
    /\ dTax \in DeriveTaxes
    /\ dOut = NoOutcome
    /\ dClient = NoClient

\* getBazaarData from the forEach loop to its return or throw
DDerive ==
    /\ dOut.status = "none"
    /\ dOut' =
         [status |-> IF DerivationThrows(dSnap) THEN "throw" ELSE "ok",
          cards |-> IF DerivationThrows(dSnap) THEN <<>> ELSE DeriveCards(dSnap, dTax),
          locals |-> [i \in 1..ReachedCount(dSnap) |-> LocalsOf(dSnap[i], dTax)]]
    /\ UNCHANGED <<dSnap, dTax, dClient>>

\* the filtered memo's map over the items the endpoint returned
DRecompute ==
    /\ dOut.status = "ok"
    /\ dClient.status = "none"
    /\ \E tax \in ClientTaxes :
         dClient' = [status |-> "done", tax |-> tax,
                     items |-> RecomputeAll(dOut.cards, tax)]
    /\ UNCHANGED <<dSnap, dTax, dOut>>

-----------------------------------------------------------------------------
(* Upstream of the live-API server: what axios.get can settle with *)

\* the bazaar snapshots the upstream API serves in the server model
Snapshots ==
    <<
      \* 1: three qualifying products (two of equal coinsPerHour) and one
      \*    below the liquidity floor
      <<Mixed[1], Mixed[3], Mixed[4], Mixed[2]>>,
      \* 2: one product without a numeric price, one below the liquidity
      \*    floor: nothing qualifies
      <<Mixed[6], Mixed[4]>>,
      \* 3: one product without quick_status, one qualifying
      <<Mixed[5], Mixed[3]>>
    >>

SnapshotIds == 1..Len(Snapshots)

\* the ways the awaited axios.get settles: rejected (network error or error
\* status), resolved with success = false, resolved with a snapshot
ApiReplies ==
    {[kind |-> "neterr", snap |-> 0], [kind |-> "flagged", snap |-> 0]}
        \cup {[kind |-> "ok", snap |-> i] : i \in SnapshotIds}

\* req.query.tax: absent, or the text of the parameter
NoQuery == [present |-> FALSE, text |-> ""]
QueryText(t) == [present |-> TRUE, text |-> t]

Queries == {NoQuery, QueryText("0")}

\* parseFloat on the parameter texts of the model, in units of 1/TaxUnit percent
ParseFloat(text) ==
    CASE text = "0" -> Num(0)
      [] text = "1.125" -> Num(1125)
      [] text = "1.25" -> Num(1250)
      [] text = "100" -> Num(100 * TaxUnit)
      [] OTHER -> NaN

\* req.query.tax ? parseFloat(req.query.tax) : 1.25
TaxOfQuery(q) ==
    IF q.present /\ q.text # "" THEN ParseFloat(q.text) ELSE Num(DefaultTaxRate)

\* faulty variant of CacheKey: one key for every tax rate
CacheKey_noTax(taxRate) == <<"flips", Num(0)>>

\* `flips_${taxRate}`
CacheKey(taxRate) == <<"flips", taxRate>>

\* the key of the scrape server
ScrapeKey == <<"flips">>

-----------------------------------------------------------------------------
(* NodeCache.  An entry is [value, age]: age is the time in seconds since  *)
(* cache.set stored it.  The library keeps t = time of set + stdTTL and    *)
(* treats the entry as expired when t < Date.now(), that is when           *)
(* stdTTL < age.  An expired entry stays stored until a get of its key     *)
(* deletes it or a set replaces it; its age is not counted further.        *)

\* faulty variant of TTL: the live-API server given the 30 s of the scrape server
TTL_scrapeForBoth == ScrapeTTL

\* stdTTL of the running server
TTL == IF deployment = "api" THEN StdTTL ELSE ScrapeTTL

\* the entry is expired: t < Date.now()
Expired(entry) == TTL < entry.age

\* cache.get(key) finds a value
Cached(key) == key \in DOMAIN cache /\ ~Expired(cache[key])

\* the cache after cache.get(key): an expired entry of that key is deleted
CacheAfterGet(key) ==
    IF key \in DOMAIN cache /\ Expired(cache[key])
    THEN [k \in DOMAIN cache \ {key} |-> cache[k]]
    ELSE cache

\* the cache after cache.set(key, value) on the cache c
CacheSet(c, key, value) ==
    [k \in DOMAIN c \cup {key} |->
        IF k = key THEN [value |-> value, age |-> 0] ELSE c[k]]

-----------------------------------------------------------------------------
(* Upstream of the scrape server: the rendered page.  A .card element is   *)
(* [hasLink, title, text, metrics]; metrics gives, per label, the numeric  *)
(* chunk findMetric matched (<<chunk>>) or <<>> when the label is missing. *)

\* parseNum on the chunks of the model
parseNum(str) ==
    CASE str = "" -> Null
      [] str = "-" -> Null
      [] str = "." -> Null
      [] str = "k" -> NaN
      [] str = "5" -> Num(5)
      [] str = "12" -> Num(12)
      [] str = "90" -> Num(90)
      [] str = "100" -> Num(100)
      [] str = "900" -> Num(900)
      [] str = "1,000" -> Num(1000)
      [] str = "1,234" -> Num(1234)
      [] str = "1.5k" -> Num(1500)
      [] str = "2m" -> Num(2000000)
      [] OTHER -> Null

findMetric(card, label) ==
    IF card.metrics[label] = <<>> THEN Null ELSE parseNum(card.metrics[label][1])

\* a parsed metric that is a coin amount per unit or per hour, in units of 1/Scale
Scaled(x) == IF IsNum(x) THEN Num(x.v * Scale) ELSE x

CardElement(link, title, buy, sell, ib, is, margin, cph) ==
    [hasLink |-> link, title |-> title, text |-> title,
     metrics |-> [buy |-> buy, sell |-> sell, instabuy |-> ib, instasell |-> is,
                  margin |-> margin, coinsPerHour |-> cph]]

Pages ==
    <<
      \* 1: two cards and a spacer div
      <<CardElement(TRUE, "Enchanted Rune", <<"100">>, <<"90">>, <<"12">>, <<"12">>,
                    <<"5">>, <<"1,234">>),
        CardElement(FALSE, "", <<>>, <<>>, <<>>, <<>>, <<>>, <<>>),
        CardElement(TRUE, "Diamond Pickaxe", <<"2m">>, <<"1,234">>, <<"12">>, <<"5">>,
                    <<"100">>, <<"1.5k">>)>>,
      \* 2: a card with missing and dash metrics and no title
      <<CardElement(TRUE, "", <<"-">>, <<"90">>, <<>>, <<"12">>, <<"-">>, <<"k">>)>>,
      \* 3: no .card element
      <<>>,
      \* 4: spacer divs only
      <<CardElement(FALSE, "", <<>>, <<>>, <<>>, <<>>, <<>>, <<>>)>>
    >>

PageIds == 1..Len(Pages)

RECURSIVE ScrapeCards(_, _)
\* $('.card').each(...): the cards pushed for page[1..n]
ScrapeCards(page, n) ==
    IF n = 0 THEN <<>>
    ELSE LET before == ScrapeCards(page, n - 1)
             card == page[n]
         IN IF ~card.hasLink THEN before
            ELSE Append(before,
                   [id |-> Len(before),
                    title |-> IF card.title = "" THEN "Unknown Item" ELSE card.title,
                    buy |-> findMetric(card, "buy"),
                    sell |-> findMetric(card, "sell"),
                    instabuy |-> findMetric(card, "instabuy"),
                    instasell |-> findMetric(card, "instasell"),
                    margin |-> Scaled(findMetric(card, "margin")),
                    coinsPerHour |-> Scaled(findMetric(card, "coinsPerHour")),
                    raw |-> card.text])

\* scrapeFlips throws after the page was read: no .card, or no card parsed
ScrapeThrows(page) == Len(page) = 0 \/ Len(ScrapeCards(page, Len(page))) = 0

\* the ways the browser steps settle: launch or navigation rejected, or the
\* page content read
ScrapeReplies ==
    {[kind |-> "neterr", snap |-> 0]} \cup {[kind |-> "ok", snap |-> i] : i \in PageIds}

-----------------------------------------------------------------------------
(* Requests *)

\* calls: upstream calls made for the request; refresh: its cache.get found
\* (and deleted) an expired entry; waited: seconds since page.goto armed its
\* navigation timeout (scrape server)
IdleReq ==
    [pc |-> "idle", query |-> NoQuery, tax |-> Undefined, calls |-> 0, refresh |-> FALSE,
     waited |-> 0]

NoReply == [kind |-> "none", snap |-> 0]

NoResp ==
    [kind |-> "none", query |-> NoQuery, tax |-> Undefined, hit |-> FALSE,
     refresh |-> FALSE, calls |-> 0, reply |-> NoReply, status |-> 0, success |-> FALSE, hasData |-> FALSE,
     data |-> <<>>, error |-> ""]

ReqIds == 0..MaxReqs

\* tax of the startup call getBazaarData(): the default parameter value
StartupTax == Num(DefaultTaxRate)

\* err.message of the failures
ErrorMessage(reply) ==
    CASE reply.kind = "neterr" -> "Network Error"
      [] reply.kind = "flagged" -> "Hypixel API failed"
      [] reply.kind = "timeout" -> "Navigation timeout of 30000 ms exceeded"
      [] deployment = "api" -> "Cannot read properties of undefined (reading 'buyMovingWeek')"
      [] Len(Pages[reply.snap]) = 0 -> "Unexpected flips markup. No .card elements found."
      [] OTHER -> "No flip cards parsed. Inspect selectors."

\* res.json({ success: true, data }) for slots, the log line for the startup call
SuccessResp(r, req, hit, reply, data) ==
    [kind |-> IF r = 0 THEN "log" ELSE "json", query |-> req.query,
     tax |-> req.tax, hit |-> hit, refresh |-> req.refresh, calls |-> req.calls,
     reply |-> reply,
     status |-> IF r = 0 THEN 0 ELSE 200, success |-> TRUE, hasData |-> r # 0,
     data |-> IF r = 0 THEN <<>> ELSE data, error |-> ""]

\* res.status(500).json({ success: false, error: err.message })
FailureResp(r, req, reply) ==
    [kind |-> IF r = 0 THEN "log" ELSE "json", query |-> req.query,
     tax |-> req.tax, hit |-> FALSE, refresh |-> req.refresh, calls |-> req.calls,
     reply |-> reply,
     status |-> IF r = 0 THEN 0 ELSE 500, success |-> FALSE, hasData |-> FALSE,
     data |-> <<>>, error |-> ErrorMessage(reply)]

\* the slot after its response: free again (the startup call runs once)
Finished(r) == IF r = 0 THEN [IdleReq EXCEPT !.pc = "done"] ELSE IdleReq

\* the lowest free slot takes the next request
NextSlot(r) ==
    /\ r \in 1..MaxReqs
    /\ reqs[r].pc = "idle"
    /\ \A j \in 1..(r - 1) : reqs[j].pc # "idle"

-----------------------------------------------------------------------------
(* The live-API server *)

\* getBazaarData throws: axios rejected, success = false, or the loop threw
ApiFails(reply) == reply.kind # "ok" \/ DerivationThrows(Snapshots[reply.snap])

\* faulty variant of ApiCacheAfter: an empty list stored when the call failed
ApiCacheAfter_storeOnFailure(req, reply) ==
    IF ApiFails(reply) THEN CacheSet(cache, CacheKey(req.tax), <<>>)
    ELSE CacheSet(cache, CacheKey(req.tax), DeriveCards(Snapshots[reply.snap], req.tax))

\* the cache when the call of req ends on reply: cache.set(cacheKey, topCards)
\* is reached only when nothing threw
ApiCacheAfter(req, reply) ==
    IF ApiFails(reply) THEN cache
    ELSE CacheSet(cache, CacheKey(req.tax), DeriveCards(Snapshots[reply.snap], req.tax))

\* what the route handler (or the startup block) writes when the call ends
ApiResponse(r, req, reply) ==
    IF ApiFails(reply) THEN FailureResp(r, req, reply)
    ELSE SuccessResp(r, req, FALSE, reply, DeriveCards(Snapshots[reply.snap], req.tax))

\* GET /api/flips up to the await of axios.get, or to the response on a hit
ApiRequest(r) ==
    /\ deployment = "api"
    /\ NextSlot(r)
    /\ \E q \in Queries :
         LET tax == TaxOfQuery(q)
             key == CacheKey(tax)
             req == [pc |-> "fetching", query |-> q, tax |-> tax, calls |-> 1,
                     refresh |-> key \in DOMAIN cache /\ Expired(cache[key]),
                     waited |-> 0]
         IN IF Cached(key)
            THEN /\ resp' = SuccessResp(r, [req EXCEPT !.calls = 0], TRUE, NoReply,
                                        cache[key].value)
                 /\ UNCHANGED <<cache, reqs>>
            ELSE /\ cache' = CacheAfterGet(key)
                 /\ reqs' = [reqs EXCEPT ![r] = req]
                 /\ UNCHANGED resp
    /\ UNCHANGED <<deployment, deriveVars, clientVars>>

\* axios.get settles: the rest of getBazaarData and of its caller
ApiSettle(r) ==
    /\ deployment = "api"
    /\ r \in ReqIds
    /\ reqs[r].pc = "fetching"
    /\ \E reply \in ApiReplies :
         /\ cache' = ApiCacheAfter(reqs[r], reply)
         /\ resp' = ApiResponse(r, reqs[r], reply)
    /\ reqs' = [reqs EXCEPT ![r] = Finished(r)]
    /\ UNCHANGED <<deployment, deriveVars, clientVars>>

-----------------------------------------------------------------------------
(* The scrape server *)

ScrapeFails(reply) == reply.kind # "ok" \/ ScrapeThrows(Pages[reply.snap])

ScrapedCards(reply) == ScrapeCards(Pages[reply.snap], Len(Pages[reply.snap]))

ScrapeCacheAfter(reply) ==
    IF ScrapeFails(reply) THEN cache ELSE CacheSet(cache, ScrapeKey, ScrapedCards(reply))

ScrapeResponse(r, req, reply) ==
    IF ScrapeFails(reply) THEN FailureResp(r, req, reply)
    ELSE SuccessResp(r, req, FALSE, reply, ScrapedCards(reply))

\* GET /api/flips of server.js up to page.goto, or to the response on a hit
ScrapeRequest(r) ==
    /\ deployment = "scrape"
    /\ NextSlot(r)
    /\ LET req == [pc |-> "fetching", query |-> NoQuery, tax |-> Undefined, calls |-> 1,
                   refresh |-> ScrapeKey \in DOMAIN cache /\ Expired(cache[ScrapeKey]),
                   waited |-> 0]
       IN IF Cached(ScrapeKey)
          THEN /\ resp' = SuccessResp(r, [req EXCEPT !.calls = 0], TRUE, NoReply,
                                      cache[ScrapeKey].value)
               /\ UNCHANGED <<cache, reqs>>
          ELSE /\ cache' = CacheAfterGet(ScrapeKey)
               /\ reqs' = [reqs EXCEPT ![r] = req]
               /\ UNCHANGED resp
    /\ UNCHANGED <<deployment, deriveVars, clientVars>>

\* the browser steps settle before the navigation timeout
ScrapeSettle(r) ==
    /\ deployment = "scrape"
    /\ r \in ReqIds
    /\ reqs[r].pc = "fetching"
    /\ reqs[r].waited < GotoTimeout
    /\ \E reply \in ScrapeReplies :
         /\ cache' = ScrapeCacheAfter(reply)
         /\ resp' = ScrapeResponse(r, reqs[r], reply)
    /\ reqs' = [reqs EXCEPT ![r] = Finished(r)]
    /\ UNCHANGED <<deployment, deriveVars, clientVars>>

\* page.goto(url, { timeout: 30000 }) rejects
ScrapeTimeout(r) ==
    /\ deployment = "scrape"
    /\ r \in ReqIds
    /\ reqs[r].pc = "fetching"
    /\ reqs[r].waited >= GotoTimeout
    /\ resp' = FailureResp(r, reqs[r], [kind |-> "timeout", snap |-> 0])
    /\ reqs' = [reqs EXCEPT ![r] = Finished(r)]
    /\ UNCHANGED <<deployment, cache, deriveVars, clientVars>>

-----------------------------------------------------------------------------
(* Time *)

\* TickStep seconds pass; a navigation timeout that is due fires first
Tick ==
    /\ \A r \in ReqIds :
         (deployment = "scrape" /\ reqs[r].pc = "fetching") => reqs[r].waited < GotoTimeout
    /\ cache' = [k \in DOMAIN cache |->
                   IF Expired(cache[k]) THEN cache[k]
                   ELSE [cache[k] EXCEPT !.age = @ + TickStep]]
    /\ reqs' = [r \in ReqIds |->
                  IF deployment = "scrape" /\ reqs[r].pc = "fetching"
                  THEN [reqs[r] EXCEPT !.waited = @ + TickStep]
                  ELSE reqs[r]]
    /\ UNCHANGED <<deployment, resp, deriveVars, clientVars>>

-----------------------------------------------------------------------------
(* Client: text.  A string the client splits, trims or searches is held    *)
(* as the sequence of its characters.                                      *)

UpperCase ==
    <<"A", "B", "C", "D", "E", "F", "G", "H", "I", "J", "K", "L", "M", "N", "O", "P", "Q", "R", "S", "T", "U", "V", "W", "X", "Y", "Z">>

LowerCase ==
    <<"a", "b", "c", "d", "e", "f", "g", "h", "i", "j", "k", "l", "m", "n", "o", "p", "q", "r", "s", "t", "u", "v", "w", "x", "y", "z">>

\* the characters of the titles and card texts of the model
Text(str) ==
    CASE str = "" -> <<>>
      [] str = "Enchanted Rune" ->
           <<"E", "n", "c", "h", "a", "n", "t", "e", "d", " ", "R", "u", "n", "e">>
      [] str = "Diamond Pickaxe" ->
           <<"D", "i", "a", "m", "o", "n", "d", " ", "P", "i", "c", "k", "a", "x", "e">>
      [] str = "Unknown Item" ->
           <<"U", "n", "k", "n", "o", "w", "n", " ", "I", "t", "e", "m">>
      [] str = "Wheat" ->
           <<"W", "h", "e", "a", "t">>
      [] str = "Wheat Rune Dust" ->
           <<"W", "h", "e", "a", "t", " ", "R", "u", "n", "e", " ", "D", "u", "s", "t">>

\* String.prototype.toLowerCase
toLowerCase(s) ==
    [i \in 1..Len(s) |->
        IF \E n \in 1..Len(UpperCase) : UpperCase[n] = s[i]
        THEN LowerCase[CHOOSE n \in 1..Len(UpperCase) : UpperCase[n] = s[i]]
        ELSE s[i]]

\* String.prototype.trim (the only white space of the model is the blank)
trim(s) ==
    LET inked == {i \in 1..Len(s) : s[i] # " "}
    IN IF inked = {} THEN <<>>
       ELSE SubSeq(s, CHOOSE i \in inked : \A j \in inked : i <= j,
                      CHOOSE i \in inked : \A j \in inked : j <= i)

RECURSIVE split(_, _)
\* String.prototype.split(separator) for a one-character separator
split(s, separator) ==
    LET at == {i \in 1..Len(s) : s[i] = separator}
    IN IF at = {} THEN <<s>>
       ELSE LET first == CHOOSE i \in at : \A j \in at : i <= j
            IN <<SubSeq(s, 1, first - 1)>> \o split(SubSeq(s, first + 1, Len(s)), separator)

\* String.prototype.includes
includes(haystack, kw) ==
    \E i \in 0..(Len(haystack) - Len(kw)) : SubSeq(haystack, i + 1, i + Len(kw)) = kw

-----------------------------------------------------------------------------
(* Client: the lists it receives.  res.json serialises the cards with      *)
(* JSON.stringify and the client parses them back: a NaN or null value     *)
(* arrives as null, an undefined property does not arrive.                 *)

toWire(x) ==
    CASE x.k \in {"num", "str"} -> x
      [] x.k = "undef" -> Undefined
      [] OTHER -> Null

WireItem(card) ==
    [card EXCEPT !.buy = toWire(@), !.sell = toWire(@), !.instabuy = toWire(@),
                 !.instasell = toWire(@), !.margin = toWire(@),
                 !.coinsPerHour = toWire(@)]

WireList(cards) == [i \in 1..Len(cards) |-> WireItem(cards[i])]

\* rendered pages behind the lists the client of the model receives
ClientPages ==
    <<
      \* 1: a card with a missing price and one with a text beyond its title
      <<CardElement(TRUE, "Diamond Pickaxe", <<"1,234">>, <<"90">>, <<"12">>, <<"5">>,
                    <<"1,234">>, <<"1.5k">>),
        CardElement(TRUE, "Enchanted Rune", <<"1,000">>, <<"900">>, <<"12">>, <<"12">>,
                    <<"100">>, <<"1.5k">>),
        CardElement(TRUE, "", <<"-">>, <<"90">>, <<>>, <<"12">>, <<"-">>, <<"k">>),
        [CardElement(TRUE, "Wheat", <<"1,000">>, <<"90">>, <<"12">>, <<"12">>,
                     <<"900">>, <<"1.5k">>) EXCEPT !.text = "Wheat Rune Dust"]>>,
      \* 2: two cards, the second with a negative margin
      <<CardElement(TRUE, "Enchanted Rune", <<"100">>, <<"90">>, <<"12">>, <<"12">>,
                    <<"5">>, <<"100">>),
        CardElement(TRUE, "Diamond Pickaxe", <<"90">>, <<"100">>, <<"12">>, <<"12">>,
                    <<"-">>, <<"-">>)>>
    >>

\* j.data of the successful responses of the model
ResponseLists ==
    {WireList(ScrapeCards(ClientPages[p], Len(ClientPages[p]))) : p \in 1..Len(ClientPages)}

-----------------------------------------------------------------------------
(* Client: filters.  filters maps a filter key to the text of its input;   *)
(* a key the object lacks is outside its domain.  The text of a range      *)
(* input is a string, the blacklist a sequence of characters.  A property  *)
(* read is <<value>>, or <<>> for undefined.                               *)

filterConfig ==
    <<[field |-> "buy", minKey |-> "buyMin", maxKey |-> "buyMax"],
      [field |-> "sell", minKey |-> "sellMin", maxKey |-> "sellMax"],
      [field |-> "instabuy", minKey |-> "instaBuyMin", maxKey |-> "instaBuyMax"],
      [field |-> "instasell", minKey |-> "instaSellMin", maxKey |-> "instaSellMax"],
      [field |-> "margin", minKey |-> "marginMin", maxKey |-> "marginMax"],
      [field |-> "coinsPerHour", minKey |-> "cphMin", maxKey |-> "cphMax"]>>

RangeKeys ==
    {filterConfig[c].minKey : c \in 1..Len(filterConfig)}
        \cup {filterConfig[c].maxKey : c \in 1..Len(filterConfig)}

defaultFilters ==
    [key \in RangeKeys \cup {"blacklist"} |-> IF key = "blacklist" THEN <<>> ELSE ""]

\* filters[key]
Read(object, key) == IF key \in DOMAIN object THEN <<object[key]>> ELSE <<>>

\* Number(text) on the range texts of the model
NumberOf(read) ==
    CASE read = <<>> -> NaN
      [] read = <<"">> -> Num(0)
      [] read = <<"100">> -> Num(100)
      [] read = <<"1000">> -> Num(1000)
      [] OTHER -> NaN

\* the unit the values of a field are held in: 1/Scale for margin and
\* coinsPerHour, 1 for prices and hourly rates
UnitOf(field) == IF field \in {"margin", "coinsPerHour"} THEN Scale ELSE 1

\* faulty variant of inRange: a missing value passes
inRange_nullPasses(value, minStr, maxStr, unit) ==
    \/ value.k \in {"null", "undef"}
    \/ /\ IF minStr = <<"">> THEN IsNum(value)
          ELSE jsLe(jsMul(NumberOf(minStr), Num(unit)), value)
       /\ IF maxStr = <<"">> THEN IsNum(value)
          ELSE jsLe(value, jsMul(NumberOf(maxStr), Num(unit)))

\* inRange(value, minStr, maxStr), the bounds brought to the unit of value
inRange(value, minStr, maxStr, unit) ==
    /\ value.k \notin {"null", "undef"}
    /\ IF minStr = <<"">> THEN IsNum(value)
       ELSE jsLe(jsMul(NumberOf(minStr), Num(unit)), value)
    /\ IF maxStr = <<"">> THEN IsNum(value)
       ELSE jsLe(value, jsMul(NumberOf(maxStr), Num(unit)))

\* faulty variant of blacklistTokens: the pieces are not trimmed
blacklistTokens_untrimmed(f) ==
    LET pieces == split(f.blacklist, ",")
    IN SelectSeq([i \in 1..Len(pieces) |-> toLowerCase(pieces[i])],
                 LAMBDA item : item # <<>>)

\* filters.blacklist.split(',').map(trim, toLowerCase).filter(Boolean)
blacklistTokens(f) ==
    LET pieces == split(f.blacklist, ",")
    IN SelectSeq([i \in 1..Len(pieces) |-> toLowerCase(trim(pieces[i]))],
                 LAMBDA item : item # <<>>)

\* reading filters.blacklist.split of a filters object without blacklist
\* raises a TypeError during render
RenderThrows(f) == "blacklist" \notin DOMAIN f

\* `${item.title} ${item.raw || ''}`.toLowerCase()
haystackOf(item) == toLowerCase(Text(item.title) \o <<" ">> \o Text(item.raw))

\* blacklistTokens.some((kw) => haystack.includes(kw))
Blacklisted(item, f) ==
    LET tokens == blacklistTokens(f)
        haystack == haystackOf(item)
    IN \E t \in 1..Len(tokens) : includes(haystack, tokens[t])

\* the for loop over filterConfig: no bounded field rejects the item
PassesRanges(item, f) ==
    \A c \in 1..Len(filterConfig) :
        LET cfg == filterConfig[c]
        IN (Read(f, cfg.minKey) # <<"">> \/ Read(f, cfg.maxKey) # <<"">>) =>
               inRange(item[cfg.field], Read(f, cfg.minKey), Read(f, cfg.maxKey),
                       UnitOf(cfg.field))

\* the filter callback
Kept(item, f) == ~Blacklisted(item, f) /\ PassesRanges(item, f)

\* the filtered memo: items.map(recompute).filter(...)
Filtered(items, f, tax) ==
    SelectSeq(RecomputeAll(items, tax), LAMBDA item : Kept(item, f))

-----------------------------------------------------------------------------
(* Client: sort *)

NegInfinity == [k |-> "ninf", v |-> 0]

Str(s) == [k |-> "str", v |-> 0, s |-> s]

SortOptions == {"margin", "buy", "sell", "instabuy", "instasell", "coinsPerHour", "title"}

\* faulty variant of sortKey: a missing key taken as +Infinity
sortKey_nullLast(item, by) ==
    IF by \notin DOMAIN item THEN [k |-> "pinf", v |-> 0]
    ELSE IF by = "title" THEN Str(item.title)
    ELSE IF item[by].k \in {"null", "undef"} THEN [k |-> "pinf", v |-> 0]
    ELSE item[by]

\* a[sortBy] ?? -Infinity
sortKey(item, by) ==
    IF by \notin DOMAIN item THEN NegInfinity
    ELSE IF by = "title" THEN Str(item.title)
    ELSE IF item[by].k \in {"null", "undef"} THEN NegInfinity
    ELSE item[by]

\* the sign of A - B; a NaN difference (a NaN operand, or a string that is
\* not a number, as the titles of the model) is what sort takes as +0
signOfDifference(A, B) ==
    CASE A.k = "num" /\ B.k = "num" ->
            IF A.v < B.v THEN -1 ELSE IF A.v > B.v THEN 1 ELSE 0
      [] A.k = "ninf" /\ B.k \in {"num", "pinf"} -> -1
      [] A.k \in {"num", "pinf"} /\ B.k = "ninf" -> 1
      [] A.k = "pinf" /\ B.k = "num" -> 1
      [] A.k = "num" /\ B.k = "pinf" -> -1
      [] OTHER -> 0

\* the comparator of sorted
compareItems(a, b, by, dir) ==
    LET A == sortKey(a, by)
        B == sortKey(b, by)
    IN IF A.k # "nan" /\ A = B THEN 0
       ELSE IF dir = "asc" THEN signOfDifference(A, B) ELSE signOfDifference(B, A)

\* [...filtered].sort(compareItems): stable, as SortCards
Sorted(arr, by, dir) ==
    LET n == Len(arr)
        place == [i \in 1..n |->
                    1 + Cardinality({j \in 1..n : compareItems(arr[j], arr[i], by, dir) < 0})
                      + Cardinality({j \in 1..(i - 1) :
                                        compareItems(arr[j], arr[i], by, dir) = 0})]
    IN [p \in 1..n |-> arr[CHOOSE i \in 1..n : place[i] = p]]

-----------------------------------------------------------------------------
(* Client: preferences.  The stored item is absent, not JSON, or JSON; an  *)
(* object is a function from the keys it has (a JSON value that is no      *)
(* object, as null or 5, reads like one without keys).                     *)

NoKeys == [key \in {} |-> 0]

StoredPrefs ==
    <<[kind |-> "absent", value |-> NoKeys],
      [kind |-> "corrupt", value |-> NoKeys],
      [kind |-> "json", value |-> NoKeys],
      [kind |-> "json",
       value |-> [filters |-> [defaultFilters EXCEPT !["buyMin"] = "1000"],
                  sortBy |-> "buy", sortDir |-> "asc", tax |-> Num(0)]],
      [kind |-> "json", value |-> [filters |-> NoKeys]],
      [kind |-> "json", value |-> [filters |-> [blacklist |-> <<"r", "u", "n", "e">>]]],
      [kind |-> "json", value |-> [tax |-> Str("abc")]]>>

\* loadPrefs() || {}
loadPrefs(item) == IF item.kind = "json" THEN item.value ELSE NoKeys

\* prefs.filters || { ...defaultFilters }
initialFilters(p) == IF "filters" \in DOMAIN p THEN p.filters ELSE defaultFilters

\* prefs.sortBy || 'margin'
initialSortBy(p) == IF "sortBy" \in DOMAIN p /\ p.sortBy # "" THEN p.sortBy ELSE "margin"

\* prefs.sortDir || 'desc'
initialSortDir(p) == IF "sortDir" \in DOMAIN p /\ p.sortDir # "" THEN p.sortDir ELSE "desc"

\* prefs.tax ?? 1.125
initialTax(p) ==
    IF "tax" \in DOMAIN p /\ p.tax.k \notin {"null", "undef"} THEN p.tax
    ELSE Num(ClientDefaultTax)

\* JSON.stringify({ filters, sortBy, sortDir, tax }) as localStorage keeps it
Saved(f, by, dir, t) ==
    [kind |-> "json",
     value |-> [filters |-> f, sortBy |-> by, sortDir |-> dir, tax |-> toWire(t)]]

-----------------------------------------------------------------------------
(* Client: the App component *)

NoFetch == [pc |-> "none", silent |-> FALSE]

FetchIds == 1..MaxFetches

NoArrival == [seq |-> 0, ok |-> FALSE, okSeq |-> 0, data |-> <<>>]

\* the client before the page is opened, but for the stored preferences
ClientUnloaded ==
    /\ appItems = <<>>
    /\ loading = FALSE
    /\ error = <<>>
    /\ lastUpdated = <<>>
    /\ filters = defaultFilters
    /\ sortBy = "margin"
    /\ sortDir = "desc"
    /\ appTax = Num(ClientDefaultTax)
    /\ appPhase = "unloaded"
    /\ fetches = [n \in FetchIds |-> NoFetch]
    /\ now = 0
    /\ arrived = NoArrival

\* no client: the server models run without one
ClientIdle == ClientUnloaded /\ stored = StoredPrefs[1]

\* the first call of App: the useState initialisers and the first render
AppStart ==
    /\ appPhase = "unloaded"
    /\ LET p == loadPrefs(stored)
       IN /\ filters' = initialFilters(p)
          /\ sortBy' = initialSortBy(p)
          /\ sortDir' = initialSortDir(p)
          /\ appTax' = initialTax(p)
          /\ appPhase' = IF RenderThrows(initialFilters(p)) THEN "crashed" ELSE "rendered"
    /\ appItems' = <<>>
    /\ loading' = FALSE
    /\ error' = <<>>
    /\ lastUpdated' = <<>>
    /\ UNCHANGED <<stored, fetchVars>>

\* the call fetchData(silent) up to its await, as call number n
StartFetch(n, silent) ==
    /\ n \in FetchIds
    /\ fetches[n].pc = "none"
    /\ \A m \in 1..(n - 1) : fetches[m].pc # "none"
    /\ loading' = (IF silent THEN loading ELSE TRUE)
    /\ error' = <<>>
    /\ fetches' = [fetches EXCEPT ![n] = [pc |-> "waiting", silent |-> silent]]

\* the effects of the first commit: the preferences are saved, fetchData()
\* is called and the refresh interval is set
Mount ==
    /\ appPhase = "rendered"
    /\ appPhase' = "mounted"
    /\ stored' = Saved(filters, sortBy, sortDir, appTax)
    /\ StartFetch(1, FALSE)
    /\ UNCHANGED <<appItems, lastUpdated, filters, sortBy, sortDir, appTax, now, arrived>>

\* the interval fires: fetchData(true)
IntervalTick ==
    /\ appPhase = "mounted"
    /\ now' = now + 1
    /\ \E n \in FetchIds : StartFetch(n, TRUE)
    /\ UNCHANGED <<appItems, lastUpdated, viewVars, arrived>>

\* the Refresh button: onClick={fetchData} passes the click event as silent
ClickRefresh ==
    /\ appPhase = "mounted"
    /\ ~loading
    /\ \E n \in FetchIds : StartFetch(n, TRUE)
    /\ UNCHANGED <<appItems, lastUpdated, viewVars, now, arrived>>

\* the ways the awaited fetch and res.json() end: fetch rejects, the body is
\* not JSON, success is false with or without an error text, success is true
\* with a list or without data
ClientReplies ==
    {[kind |-> "rejected", data |-> <<>>, message |-> "Failed to fetch"],
     [kind |-> "unparseable", data |-> <<>>, message |-> "Unexpected token < in JSON"],
     [kind |-> "failure", data |-> <<>>, message |-> "Hypixel API failed"],
     [kind |-> "failure", data |-> <<>>, message |-> "Failed to load flips"],
     [kind |-> "ok", data |-> <<>>, message |-> ""]}
        \cup {[kind |-> "ok", data |-> list, message |-> ""] : list \in ResponseLists}

\* faulty variant of ItemsAfter: a failure clears the list
ItemsAfter_clearOnFailure(reply) == IF reply.kind = "ok" THEN reply.data ELSE <<>>

\* items when the call ends on reply: setItems(j.data || []) on success
ItemsAfter(reply) == IF reply.kind = "ok" THEN reply.data ELSE appItems

\* faulty variant of ItemsOnArrival: the response of a call made before one
\* already answered is dropped
ItemsOnArrival_newestOnly(n, reply) ==
    IF n < arrived.seq THEN appItems ELSE ItemsAfter(reply)

\* items when call n ends on reply: no call is cancelled or ignored
ItemsOnArrival(n, reply) == ItemsAfter(reply)

\* the rest of fetchData when its awaits end
FetchSettles(n) ==
    /\ appPhase = "mounted"
    /\ n \in FetchIds
    /\ fetches[n].pc = "waiting"
    /\ \E reply \in ClientReplies :
         /\ appItems' = ItemsOnArrival(n, reply)
         /\ lastUpdated' = (IF reply.kind = "ok" THEN <<now>> ELSE lastUpdated)
         /\ error' = (IF reply.kind = "ok" THEN error ELSE <<reply.message>>)
         /\ arrived' = [seq |-> n, ok |-> reply.kind = "ok",
                        okSeq |-> IF reply.kind = "ok" THEN n ELSE arrived.okSeq,
                        data |-> IF reply.kind = "ok" THEN reply.data ELSE arrived.data]
    /\ loading' = (IF fetches[n].silent THEN loading ELSE FALSE)
    /\ fetches' = [fetches EXCEPT ![n].pc = "done"]
    /\ UNCHANGED <<viewVars, now>>

\* the object with key set to value: { ...prev, [key]: value }
WithKey(object, key, value) ==
    [k \in DOMAIN object \cup {key} |-> IF k = key THEN value ELSE object[k]]

\* the texts typed into a range input, and into the blacklist input
RangeTexts == {"", "1000"}

BlacklistTexts ==
    {<<>>,
     <<" ", ",", " ">>,
     <<"r", "u", "n", "e">>,
     <<"x", "y", ",", " ", "R", "u", "N", "e", " ">>,
     <<"i", "t", "e", "m", ",", " ", "d", "u", "s", "t", " ">>}

\* the fields with a bound set
BoundedFields(f) ==
    {c \in 1..Len(filterConfig) :
        Read(f, filterConfig[c].minKey) # <<"">> \/ Read(f, filterConfig[c].maxKey) # <<"">>}

\* setFilter(key, value) from a range input or the blacklist input, and the
\* effect that saves the preferences
SetFilter ==
    /\ appPhase = "mounted"
    /\ \E key \in RangeKeys \cup {"blacklist"} :
         \E value \in (IF key = "blacklist" THEN BlacklistTexts ELSE RangeTexts) :
            /\ filters' = WithKey(filters, key, value)
            /\ Cardinality(BoundedFields(filters')) <= MaxFields
    /\ stored' = Saved(filters', sortBy, sortDir, appTax)
    /\ UNCHANGED <<appVars, sortBy, sortDir, appTax, appPhase, fetchVars>>

\* resetFilters
ResetFilters ==
    /\ appPhase = "mounted"
    /\ filters' = defaultFilters
    /\ stored' = Saved(filters', sortBy, sortDir, appTax)
    /\ UNCHANGED <<appVars, sortBy, sortDir, appTax, appPhase, fetchVars>>

\* the sortBy select: setSortBy(e.target.value)
SetSortBy ==
    /\ appPhase = "mounted"
    /\ \E by \in SortOptions : sortBy' = by
    /\ stored' = Saved(filters, sortBy', sortDir, appTax)
    /\ UNCHANGED <<appVars, filters, sortDir, appTax, appPhase, fetchVars>>

\* the sortDir select
SetSortDir ==
    /\ appPhase = "mounted"
    /\ \E dir \in {"desc", "asc"} : sortDir' = dir
    /\ stored' = Saved(filters, sortBy, sortDir', appTax)
    /\ UNCHANGED <<appVars, filters, sortBy, appTax, appPhase, fetchVars>>

\* the tax input: setTax(Number(e.target.value))
SetTax ==
    /\ appPhase = "mounted"
    /\ \E t \in {Num(0), Num(ClientDefaultTax)} : appTax' = t
    /\ stored' = Saved(filters, sortBy, sortDir, appTax')
    /\ UNCHANGED <<appVars, filters, sortBy, sortDir, appPhase, fetchVars>>

\* the filtered and the sorted memo of the current render
filtered == Filtered(appItems, filters, appTax)

sorted == Sorted(filtered, sortBy, sortDir)

-----------------------------------------------------------------------------
(* Specifications *)

EmptyCache == [k \in {} |-> 0]

\* the process right after start: the startup block has called
\* getBazaarData() / scrapeFlips(), missed the empty cache and awaits upstream
Init ==
    /\ deployment \in {"api", "scrape"}
    /\ cache = EmptyCache
    /\ reqs = [r \in ReqIds |->
                 IF r # 0 THEN IdleReq
                 ELSE [pc |-> "fetching", query |-> NoQuery,
                       tax |-> IF deployment = "api" THEN StartupTax ELSE Undefined,
                       calls |-> 1, refresh |-> FALSE, waited |-> 0]]
    /\ resp = NoResp
    /\ dSnap = <<>>
    /\ dTax = Num(0)
    /\ dOut = NoOutcome
    /\ dClient = NoClient
    /\ ClientIdle

Next ==
    \/ \E r \in ReqIds : ApiRequest(r)
    \/ \E r \in ReqIds : ApiSettle(r)
    \/ \E r \in ReqIds : ScrapeRequest(r)
    \/ \E r \in ReqIds : ScrapeSettle(r)
    \/ \E r \in ReqIds : ScrapeTimeout(r)
    \/ Tick

Spec == Init /\ [][Next]_vars

\* the event loop runs every callback that is ready and timers fire; when
\* the upstream answers is up to the upstream
Fairness ==
    /\ WF_vars(Tick)
    /\ \A r \in ReqIds : WF_vars(ScrapeTimeout(r))

FairSpec == Spec /\ Fairness

DeriveFullInit ==
    /\ DeriveInit
    /\ deployment = "api"
    /\ cache = EmptyCache
    /\ reqs = [r \in ReqIds |-> IdleReq]
    /\ resp = NoResp
    /\ ClientIdle

DeriveNext ==
    \/ DDerive /\ UNCHANGED <<serverVars, clientVars>>
    \/ DRecompute /\ UNCHANGED <<serverVars, clientVars>>

SpecDerive == DeriveFullInit /\ [][DeriveNext]_vars

-----------------------------------------------------------------------------
(* Specifications of the client *)

ServerIdle ==
    /\ deployment = "api"
    /\ cache = EmptyCache
    /\ reqs = [r \in ReqIds |-> IdleReq]
    /\ resp = NoResp

DeriveIdle ==
    /\ dSnap = <<>>
    /\ dTax = Num(0)
    /\ dOut = NoOutcome
    /\ dClient = NoClient

\* the page is about to be opened, with any of the stored preferences
ClientInit ==
    /\ ServerIdle
    /\ DeriveIdle
    /\ ClientUnloaded
    /\ \E i \in 1..Len(StoredPrefs) : stored = StoredPrefs[i]

ClientNext ==
    \/ AppStart /\ UNCHANGED <<serverVars, deriveVars>>
    \/ Mount /\ UNCHANGED <<serverVars, deriveVars>>
    \/ IntervalTick /\ UNCHANGED <<serverVars, deriveVars>>
    \/ ClickRefresh /\ UNCHANGED <<serverVars, deriveVars>>
    \/ \E n \in FetchIds : FetchSettles(n) /\ UNCHANGED <<serverVars, deriveVars>>

\* the App from its first call on, the user leaving the filters alone
SpecClient == ClientInit /\ [][ClientNext]_vars

\* the App mounted from preferences it can render and showing the list of
\* its first request
ViewInit ==
    /\ ServerIdle
    /\ DeriveIdle
    /\ \E i \in 1..Len(StoredPrefs) :
         LET p == loadPrefs(StoredPrefs[i])
         IN /\ ~RenderThrows(initialFilters(p))
            /\ filters = initialFilters(p)
            /\ sortBy = initialSortBy(p)
            /\ sortDir = initialSortDir(p)
            /\ appTax = initialTax(p)
            /\ stored = Saved(initialFilters(p), initialSortBy(p), initialSortDir(p),
                              initialTax(p))
    /\ appPhase = "mounted"
    /\ appItems \in ResponseLists \cup {<<>>}
    /\ loading = FALSE
    /\ error = <<>>
    /\ lastUpdated = <<0>>
    /\ fetches = [n \in FetchIds |-> IF n = 1 THEN [pc |-> "done", silent |-> FALSE]
                                     ELSE NoFetch]
    /\ now = 0
    /\ arrived = [seq |-> 1, ok |-> TRUE, okSeq |-> 1, data |-> appItems]

ViewNext ==
    \/ SetFilter /\ UNCHANGED <<serverVars, deriveVars>>
    \/ ResetFilters /\ UNCHANGED <<serverVars, deriveVars>>
    \/ SetSortBy /\ UNCHANGED <<serverVars, deriveVars>>
    \/ SetSortDir /\ UNCHANGED <<serverVars, deriveVars>>
    \/ SetTax /\ UNCHANGED <<serverVars, deriveVars>>

\* the user at the filter, sort and tax controls of the mounted App
SpecView == ViewInit /\ [][ViewNext]_vars

-----------------------------------------------------------------------------
(* Claims on the derivation (SpecDerive) *)

\* best price of a book as the claims state it: the first entry, 0 for an
\* empty book
TopOfBook(book) == IF Len(book) = 0 THEN Num(0) ELSE book[1].pricePerUnit

PositivePrices(product) ==
    /\ IsNum(TopOfBook(product.buy_summary))
    /\ IsNum(TopOfBook(product.sell_summary))
    /\ TopOfBook(product.buy_summary).v > 0
    /\ TopOfBook(product.sell_summary).v > 0

NumericVolumes(product) ==
    /\ product.quick_status.present
    /\ IsNum(product.quick_status.buyMovingWeek)
    /\ IsNum(product.quick_status.sellMovingWeek)

\* r is volume / 168 rounded to the nearest integer, a tie going up
IsHourlyRate(r, volume) == 336 * r - 168 <= 2 * volume /\ 2 * volume < 336 * r + 168

\* highPrice * (1 - tax/100) - lowPrice in units of 1/Scale, tax in 1/1000 percent
StatedMargin(high, low, tax) == high * (100000 - tax) - low * 100000

SmallerOf(a, b) == IF a <= b THEN a ELSE b

\* C1: the client recomputation under tax t gives every record the server
\* emitted margin = highPrice * (1 - t/100) - lowPrice and coinsPerHour =
\* margin * min(instabuy, instasell), highPrice being the top of the
\* buy-order book and lowPrice the top of the sell-order book of its quote.
C1_ClientMatchesServer ==
    dClient.status = "done" =>
        \A i \in 1..Len(dClient.items) :
            \E n \in 1..Len(dSnap) :
                LET item == dClient.items[i]
                    high == TopOfBook(dSnap[n].buy_summary).v
                    low == TopOfBook(dSnap[n].sell_summary).v
                    margin == StatedMargin(high, low, dClient.tax.v)
                IN /\ dSnap[n].product_id = item.id
                   /\ item.margin = Num(margin)
                   /\ item.coinsPerHour =
                        Num(margin * SmallerOf(item.instabuy.v, item.instasell.v))

\* C3: for every quote with both prices positive and numeric volumes, and
\* every tax in [0, 100], the derivation computes margin = highPrice *
\* (1 - tax/100) - lowPrice, both hourly rates as the weekly volume / 168
\* rounded, and coinsPerHour = margin * min of the rates; prices 100/90,
\* volumes 2016 and tax 1.125 give 8.875, 12, 12 and 106.5.
C3_DerivationFormulas ==
    /\ \A i \in 1..Len(dOut.locals) :
         LET product == dSnap[i]
             l == dOut.locals[i]
             high == TopOfBook(product.buy_summary).v
             low == TopOfBook(product.sell_summary).v
         IN (/\ PositivePrices(product)
             /\ NumericVolumes(product)
             /\ IsNum(dTax) /\ dTax.v >= 0 /\ dTax.v <= 100000) =>
                /\ l.state = "computed"
                /\ l.margin = Num(StatedMargin(high, low, dTax.v))
                /\ IsNum(l.instabuyHourly) /\ IsNum(l.instasellHourly)
                /\ IsHourlyRate(l.instabuyHourly.v, product.quick_status.buyMovingWeek.v)
                /\ IsHourlyRate(l.instasellHourly.v, product.quick_status.sellMovingWeek.v)
                /\ l.coinsPerHour =
                     Num(StatedMargin(high, low, dTax.v)
                           * SmallerOf(l.instabuyHourly.v, l.instasellHourly.v))
    /\ (/\ dOut.status = "ok"
        /\ dSnap = <<GoodQuote("ENCHANTED_RUNE", 100, 90, 2016)>>
        /\ dTax = Num(1125)) =>
           /\ Len(dOut.cards) = 1
           /\ dOut.cards[1].margin = Num(887500)
           /\ dOut.cards[1].instabuy = Num(12)
           /\ dOut.cards[1].instasell = Num(12)
           /\ dOut.cards[1].coinsPerHour = Num(10650000)

\* the example of C3 derived, and a quote derived at tax 100
C3_Witness ==
    /\ dOut.status = "ok"
    /\ dTax = Num(1125)
    /\ Len(dOut.cards) = 1
    /\ dOut.cards[1].buy = Num(90)
    /\ dOut.cards[1].sell = Num(100)
    /\ dOut.cards[1].margin = Num(887500)
    /\ dOut.cards[1].coinsPerHour = Num(10650000)

\* the qualification rule as the claim states it; a rate above 10 is a
\* weekly volume of at least 1764
StatedQualifies(product, tax) ==
    /\ PositivePrices(product)
    /\ IsNum(tax)
    /\ StatedMargin(TopOfBook(product.buy_summary).v,
                    TopOfBook(product.sell_summary).v, tax.v) > 0
    /\ NumericVolumes(product)
    /\ product.quick_status.buyMovingWeek.v >= 1764
    /\ product.quick_status.sellMovingWeek.v >= 1764

\* C4: a quote the loop processes yields a candidate record if and only if
\* highPrice > 0, lowPrice > 0, margin > 0 and the smaller hourly rate is
\* above 10: never with a weekly volume that is 0 or absent, not with 840 or
\* 1763, and with 1764 when the other conditions hold.
C4_Qualification ==
    /\ \A i \in 1..Len(dOut.locals) :
         dOut.locals[i].pushed <=> StatedQualifies(dSnap[i], dTax)
    /\ dOut.status = "ok" =>
         /\ {dOut.cards[j].id : j \in 1..Len(dOut.cards)}
               \subseteq {dSnap[i].product_id : i \in {n \in 1..Len(dSnap) :
                                                        StatedQualifies(dSnap[n], dTax)}}
         /\ Len(dOut.cards) =
               SmallerOf(100, Cardinality({n \in 1..Len(dSnap) :
                                              StatedQualifies(dSnap[n], dTax)}))

\* a quote at the smallest passing weekly volume was emitted
C4_Witness ==
    /\ dOut.status = "ok"
    /\ Len(dSnap) = 1
    /\ dSnap[1].quick_status.present
    /\ dSnap[1].quick_status.buyMovingWeek = Num(1764)
    /\ dSnap[1].quick_status.sellMovingWeek = Num(2016)
    /\ Len(dOut.cards) = 1
    /\ dOut.cards[1].instabuy = Num(11)

\* C5: the returned list is in non-increasing coinsPerHour order, has at
\* most 100 entries, and no qualifying record left out has a coinsPerHour
\* strictly greater than one that was kept.
C5_RankedTop100 ==
    dOut.status = "ok" =>
        LET cards == dOut.cards
            kept == {cards[j].id : j \in 1..Len(cards)}
            pushed == {i \in 1..Len(dSnap) : dOut.locals[i].pushed}
        IN /\ Len(cards) <= 100
           /\ Len(cards) = SmallerOf(100, Cardinality(pushed))
           /\ \A j \in 1..(Len(cards) - 1) :
                cards[j].coinsPerHour.v >= cards[j + 1].coinsPerHour.v
           /\ \A i \in pushed :
                dSnap[i].product_id \notin kept =>
                    \A j \in 1..Len(cards) :
                        dOut.locals[i].coinsPerHour.v <= cards[j].coinsPerHour.v

\* a list of 100 was returned and a qualifying record was left out
C5_Witness ==
    /\ dOut.status = "ok"
    /\ Len(dOut.cards) = 100
    /\ Cardinality({i \in 1..Len(dSnap) : dOut.locals[i].pushed}) > 100
    /\ dOut.cards[1].coinsPerHour.v > dOut.cards[100].coinsPerHour.v

-----------------------------------------------------------------------------
(* Claims on the servers (Spec, FairSpec) *)

\* the cache key of a tax rate as the claims state it
StatedKey(tax) == IF deployment = "api" THEN <<"flips", tax>> ELSE <<"flips">>

\* the entry of key is stored and at most 10 s (live API) or 30 s (scrape) old
InWindow(key) ==
    /\ key \in DOMAIN cache
    /\ cache[key].age <= (IF deployment = "api" THEN 10 ELSE 30)

Arrives(r) == reqs[r].pc = "idle" /\ reqs'[r].pc = "fetching"

Settles(r) == reqs[r].pc = "fetching" /\ reqs'[r].pc # "fetching"

\* C2: a request without tax parameter, and the startup prefetch, is derived
\* and cached with tax rate 1.125 percent.
C2_DefaultTaxIs1125 ==
    (deployment = "api" /\ resp.kind # "none" /\ ~resp.query.present) =>
        /\ resp.tax = Num(1125)
        /\ (resp.success /\ ~resp.hit) => <<"flips", Num(1125)>> \in DOMAIN cache

\* a request arriving inside the window is answered from the cache, with the
\* stored list and no upstream call; one arriving outside calls upstream
WindowRule ==
    /\ \A r \in 1..MaxReqs :
         Arrives(r) => /\ ~InWindow(StatedKey(reqs'[r].tax))
                       /\ reqs'[r].calls = 1
                       /\ resp' = resp
    /\ (resp' # resp /\ resp'.hit) =>
         /\ InWindow(StatedKey(resp'.tax))
         /\ resp'.status = 200 /\ resp'.success
         /\ resp'.data = cache[StatedKey(resp'.tax)].value
         /\ resp'.calls = 0
         /\ UNCHANGED <<cache, reqs>>

\* the entry of the request's key is the list just returned, stored anew
Replaced(r) ==
    /\ StatedKey(reqs[r].tax) \in DOMAIN cache'
    /\ cache'[StatedKey(reqs[r].tax)] = [value |-> resp'.data, age |-> 0]

\* C6 as stated: inside the window every request for t gets the stored list
\* without an upstream call; the first request for t after expiry calls
\* upstream again and replaces the entry.
C6_WindowThenReplace ==
    [][/\ WindowRule
       /\ \A r \in 1..MaxReqs :
            (Settles(r) /\ reqs[r].refresh) => Replaced(r)]_vars

\* C6 amended: ... the first request for t after expiry calls upstream again
\* and, when that derivation succeeds, replaces the entry; when it fails the
\* request fails and no entry is stored for it.
C6_WindowThenReplaceOnSuccess ==
    [][/\ WindowRule
       /\ \A r \in 1..MaxReqs :
            (Settles(r) /\ reqs[r].refresh) =>
                /\ resp'.refresh /\ resp'.calls = 1 /\ ~resp'.hit
                /\ resp'.success => Replaced(r)
                /\ ~resp'.success => cache' = cache]_vars

\* a request that found its entry expired was answered with a new list
C6_Witness ==
    /\ resp.kind = "json"
    /\ resp.refresh
    /\ resp.success
    /\ ~resp.hit
    /\ resp.calls = 1

\* every stored entry is the whole list of one upstream snapshot (page)
\* derived with the tax of its key
EntriesWhole ==
    \A key \in DOMAIN cache :
        IF deployment = "api"
        THEN /\ Len(key) = 2
             /\ \E s \in SnapshotIds :
                  /\ ~DerivationThrows(Snapshots[s])
                  /\ cache[key].value = DeriveCards(Snapshots[s], key[2])
        ELSE /\ key = <<"flips">>
             /\ \E p \in PageIds : cache[key].value = ScrapeCards(Pages[p], Len(Pages[p]))

\* the step stores an entry under key
Stores(key) ==
    /\ key \in DOMAIN cache'
    /\ cache'[key].age = 0
    /\ key \in DOMAIN cache => cache[key] # cache'[key]

\* C7: under every interleaving the entry stored for tax t is the complete
\* ranked list derived from one upstream snapshot with tax t, and storing an
\* entry for t neither changes nor expires the entry of another tax.
C7_EntriesWholeAndSeparate ==
    /\ []EntriesWhole
    /\ [][\A key \in DOMAIN cache' :
            Stores(key) =>
                \A other \in (DOMAIN cache \cup DOMAIN cache') \ {key} :
                    /\ other \in DOMAIN cache
                    /\ other \in DOMAIN cache'
                    /\ cache'[other] = cache[other]]_vars

\* two tax rates hold entries of different age, the younger one stored while
\* the other was there
C7_Witness ==
    /\ deployment = "api"
    /\ <<"flips", Num(0)>> \in DOMAIN cache
    /\ <<"flips", Num(1250)>> \in DOMAIN cache
    /\ cache[<<"flips", Num(0)>>].age = 0
    /\ cache[<<"flips", Num(1250)>>].age > 0
    /\ cache[<<"flips", Num(0)>>].value # cache[<<"flips", Num(1250)>>].value
    /\ \E r \in 1..MaxReqs : reqs[r].pc = "fetching" /\ reqs[r].tax = Num(1250)

\* C8: when the fetch fails or the snapshot carries success = false, the
\* request ends with status 500 and {success: false, error}, no list is
\* returned, the cache is left as it was, and one upstream call was made.
C8_FetchFailure ==
    [][\A r \in 1..MaxReqs :
           (Settles(r) /\ resp'.reply.kind \in {"neterr", "flagged", "timeout"}) =>
               /\ resp'.kind = "json"
               /\ resp'.status = 500
               /\ ~resp'.success
               /\ resp'.error # ""
               /\ ~resp'.hasData
               /\ resp'.data = <<>>
               /\ resp'.calls = 1
               /\ cache' = cache]_vars

\* a request ended on the failure flag while an entry of another call is stored
C8_Witness ==
    /\ resp.kind = "json"
    /\ resp.reply.kind = "flagged"
    /\ resp.status = 500
    /\ resp.error = "Hypixel API failed"
    /\ DOMAIN cache # {}

\* the product can be derived: it has a quick_status and numeric prices
WellFormed(product) ==
    /\ product.quick_status.present
    /\ \A i \in 1..Len(product.buy_summary) : IsNum(product.buy_summary[i].pricePerUnit)
    /\ \A i \in 1..Len(product.sell_summary) : IsNum(product.sell_summary[i].pricePerUnit)

\* C9: a malformed product in an otherwise valid snapshot is left out and
\* the records of the other qualifying products are returned; the request
\* does not fail.
C9_MalformedSkipped ==
    (deployment = "api" /\ resp.kind = "json" /\ resp.reply.kind = "ok") =>
        /\ resp.status = 200
        /\ resp.success
        /\ resp.data = DeriveCards(SelectSeq(Snapshots[resp.reply.snap], WellFormed),
                                   resp.tax)

\* C10: every request to /api/flips is answered eventually.
C10_EventuallyAnswered ==
    \A r \in 1..MaxReqs : (reqs[r].pc = "fetching") ~> (reqs[r].pc = "idle")

\* C11: every record the endpoint serves has a finite numeric margin and
\* coinsPerHour (a null, undefined or NaN value is serialised as null or
\* left out), whatever the tax parameter and on both acquisition paths.
C11_ServedMetricsFinite ==
    (resp.kind = "json" /\ resp.success) =>
        \A i \in 1..Len(resp.data) :
            /\ IsNum(resp.data[i].margin)
            /\ IsNum(resp.data[i].coinsPerHour)

-----------------------------------------------------------------------------
(* Claims on the client (SpecClient, SpecView) *)

Missing(x) == x.k \in {"null", "undef"}

\* the record with this id is in the list
Among(list, id) == \E j \in 1..Len(list) : list[j].id = id

\* the items of the current render after the recomputation step
recomputed == RecomputeAll(appItems, appTax)

\* C12: a record whose stored buy or sell price is null gets no numeric
\* margin or coinsPerHour from the recomputation (the missing price is not
\* taken as 0), and it fails every bounded margin or coinsPerHour filter.
C12_NullStaysMissing ==
    appPhase = "mounted" =>
        LET items == recomputed
            shown == filtered
        IN \A i \in 1..Len(appItems) :
            (Missing(appItems[i].buy) \/ Missing(appItems[i].sell)) =>
                /\ ~IsNum(items[i].margin)
                /\ ~IsNum(items[i].coinsPerHour)
                /\ (\E c \in BoundedFields(filters) :
                        filterConfig[c].field \in {"margin", "coinsPerHour"})
                      => ~Among(shown, appItems[i].id)

\* the value a stored setting gives the client as the claim states it: the
\* stored one when it is there and usable, the default otherwise
StatedFilters ==
    [key \in RangeKeys \cup {"blacklist"} |->
        IF /\ stored.kind = "json"
           /\ "filters" \in DOMAIN stored.value
           /\ key \in DOMAIN stored.value.filters
        THEN stored.value.filters[key]
        ELSE IF key = "blacklist" THEN <<>> ELSE ""]

StatedSortBy ==
    IF /\ stored.kind = "json"
       /\ "sortBy" \in DOMAIN stored.value
       /\ stored.value.sortBy \in SortOptions
    THEN stored.value.sortBy ELSE "margin"

StatedSortDir ==
    IF /\ stored.kind = "json"
       /\ "sortDir" \in DOMAIN stored.value
       /\ stored.value.sortDir \in {"asc", "desc"}
    THEN stored.value.sortDir ELSE "desc"

StatedTax ==
    IF /\ stored.kind = "json"
       /\ "tax" \in DOMAIN stored.value
       /\ IsNum(stored.value.tax)
    THEN stored.value.tax ELSE Num(1125)

\* C13: whatever the stored preferences hold (nothing, no JSON, JSON of the
\* wrong shape, a tax that is no number), the client starts with the default
\* for every missing or unusable filter, sort and tax setting, and computing
\* the filtered and sorted list does not throw.
C13_PrefsFallBackToDefaults ==
    /\ appPhase # "crashed"
    /\ appPhase = "rendered" =>
         /\ filters = StatedFilters
         /\ sortBy = StatedSortBy
         /\ sortDir = StatedSortDir
         /\ appTax = StatedTax

\* call n of fetchData ends in this step
Ends(n) == fetches[n].pc = "waiting" /\ fetches'[n].pc = "done"

\* C14: when a request of the client fails (fetch rejected, body not JSON,
\* or success = false), the item list, its last-updated time and the filter,
\* sort and tax settings are left as they were and the error message is set.
C14_FailureKeepsList ==
    [][\A n \in FetchIds :
           (Ends(n) /\ ~arrived'.ok) =>
               /\ appItems' = appItems
               /\ lastUpdated' = lastUpdated
               /\ UNCHANGED viewVars
               /\ error' # <<>>]_vars

\* a request failed while a list received before is shown
C14_Witness ==
    /\ appItems # <<>>
    /\ lastUpdated # <<>>
    /\ arrived.seq > arrived.okSeq
    /\ arrived.okSeq > 0
    /\ ~arrived.ok
    /\ error = <<"Failed to fetch">>

\* the number a range text of the model stands for
BoundOf(text) == IF text = "1000" THEN 1000 ELSE 100

\* the range rule of a field as the claim states it, for a value held in unit
StatedInRange(value, minText, maxText, unit) ==
    \/ minText = "" /\ maxText = ""
    \/ /\ IsNum(value)
       /\ minText # "" => BoundOf(minText) * unit <= value.v
       /\ maxText # "" => value.v <= BoundOf(maxText) * unit

\* C15: a record that reaches the range step survives it if and only if,
\* for each tracked field, neither bound is set or the value is not null and
\* min <= value <= max, an unset bound not limiting; bounds are inclusive.
C15_RangeFilter ==
    (appPhase = "mounted" /\ RangeKeys \subseteq DOMAIN filters) =>
        LET items == recomputed
            shown == filtered
        IN \A i \in 1..Len(items) :
            ~Blacklisted(items[i], filters) =>
                (Among(shown, items[i].id) <=>
                    \A c \in 1..Len(filterConfig) :
                        StatedInRange(items[i][filterConfig[c].field],
                                      filters[filterConfig[c].minKey],
                                      filters[filterConfig[c].maxKey],
                                      UnitOf(filterConfig[c].field)))

\* only min = 1000 is set on the buy price: the records at 1000 and at 1234
\* survive, the one without a buy price does not
C15_Witness ==
    /\ appPhase = "mounted"
    /\ Len(appItems) = 4
    /\ filters = [defaultFilters EXCEPT !["buyMin"] = "1000"]
    /\ sortBy = "margin"
    /\ Len(filtered) = 3
    /\ \A j \in 1..3 : IsNum(filtered[j].buy) /\ filtered[j].buy.v >= 1000
    /\ \E j \in 1..3 : filtered[j].buy = Num(1000)
    /\ \E i \in 1..4 : appItems[i].buy = Null

\* the same letter, whatever the case
Folded(c) ==
    IF \E n \in 1..26 : UpperCase[n] = c
    THEN LowerCase[CHOOSE n \in 1..26 : UpperCase[n] = c] ELSE c

\* s[a..b] is one of the pieces the commas cut s into
IsPiece(s, a, b) ==
    /\ a = 1 \/ s[a - 1] = ","
    /\ b = Len(s) \/ s[b + 1] = ","
    /\ \A i \in a..b : s[i] # ","

\* s[a..b] without its leading and trailing blanks, occurs in text whatever
\* the case, and is not empty
TokenOccurs(s, a, b, text) ==
    \E x \in a..b : \E y \in x..b :
        /\ s[x] # " " /\ s[y] # " "
        /\ \A i \in (a..(x - 1)) \cup ((y + 1)..b) : s[i] = " "
        /\ \E at \in 0..(Len(text) - (y - x + 1)) :
              \A i \in 0..(y - x) : Folded(text[at + 1 + i]) = Folded(s[x + i])

\* the blacklist rule as the claim states it; title and raw text are joined
\* with a blank between them
StatedBlacklisted(item, blacklist) ==
    LET text == Text(item.title) \o <<" ">> \o Text(item.raw)
    IN \E a \in 1..Len(blacklist) : \E b \in a..Len(blacklist) :
          /\ IsPiece(blacklist, a, b)
          /\ TokenOccurs(blacklist, a, b, text)

\* C16: a record is dropped by the blacklist step if and only if a non-empty
\* token (the blacklist split on commas, each piece trimmed and lower-cased)
\* occurs, whatever the case, in its title and raw text; an empty or blank
\* blacklist drops nothing.
C16_Blacklist ==
    (appPhase = "mounted" /\ "blacklist" \in DOMAIN filters) =>
        LET items == recomputed
            shown == filtered
        IN /\ \A i \in 1..Len(items) :
                Among(shown, items[i].id) <=>
                    /\ ~StatedBlacklisted(items[i], filters.blacklist)
                    /\ PassesRanges(items[i], filters)
           /\ (\A i \in 1..Len(filters.blacklist) : filters.blacklist[i] \in {" ", ","}) =>
                 \A i \in 1..Len(items) : ~Blacklisted(items[i], filters)

\* the token rune drops Enchanted Rune and keeps Diamond Pickaxe
C16_Witness ==
    /\ appPhase = "mounted"
    /\ "blacklist" \in DOMAIN filters
    /\ filters.blacklist = <<"r", "u", "n", "e">>
    /\ BoundedFields(filters) = {}
    /\ Len(appItems) = 2
    /\ \E i \in 1..2 : appItems[i].title = "Enchanted Rune"
    /\ Len(filtered) = 1
    /\ filtered[1].title = "Diamond Pickaxe"

NumericSortFields == {"margin", "buy", "sell", "instabuy", "instasell", "coinsPerHour"}

\* x is at most y when a missing key counts as -Infinity
KeyAtMost(x, y) == Missing(x) \/ (IsNum(x) /\ IsNum(y) /\ x.v <= y.v)

KeySame(x, y) == (Missing(x) /\ Missing(y)) \/ (IsNum(x) /\ IsNum(y) /\ x.v = y.v)

\* the place of the record with this id in the list
PlaceIn(list, id) == CHOOSE j \in 1..Len(list) : list[j].id = id

\* C17: sorting by a numeric field gives a permutation of the filtered list
\* in the order of that field and direction; records with equal keys keep
\* their order, and a record without key is ordered as with key -Infinity:
\* first when ascending, last when descending.
C17_StableNumericSort ==
    (/\ appPhase = "mounted"
     /\ "blacklist" \in DOMAIN filters
     /\ sortBy \in NumericSortFields
     /\ IsNum(appTax)) =>
        LET shown == filtered
            out == Sorted(shown, sortBy, sortDir)
        IN /\ Len(out) = Len(shown)
           /\ \A j \in 1..Len(shown) : \E p \in 1..Len(out) : out[p] = shown[j]
           /\ \A p \in 1..Len(out) : \A q \in (p + 1)..Len(out) :
                LET A == out[p][sortBy]
                    B == out[q][sortBy]
                IN /\ sortDir = "asc" => KeyAtMost(A, B)
                   /\ sortDir = "desc" => KeyAtMost(B, A)
                   /\ KeySame(A, B) => PlaceIn(shown, out[p].id) < PlaceIn(shown, out[q].id)

\* ascending by buy price: the record without buy price first, then the two
\* at 1000 in their order of arrival, then the one at 1234 that arrived first
C17_Witness ==
    /\ appPhase = "mounted"
    /\ "blacklist" \in DOMAIN filters
    /\ sortBy = "buy"
    /\ sortDir = "asc"
    /\ Len(filtered) = 4
    /\ filtered[1].buy = Num(1234)
    /\ sorted[1].buy = Null
    /\ sorted[2].title = "Enchanted Rune"
    /\ sorted[3].title = "Wheat"
    /\ sorted[2].buy = sorted[3].buy
    /\ sorted[4].buy = Num(1234)

\* C18: requests are not queued, merged or cancelled: the list shown is the
\* data of the successful response that arrived last, also when it answers
\* a request made before one that was answered already.
C18_LastArrivalShown ==
    /\ [](appPhase \in {"rendered", "mounted"} => appItems = arrived.data)
    /\ [][\A n \in FetchIds :
              /\ Ends(n) => arrived'.seq = n
              /\ (Ends(n) /\ arrived'.ok) => appItems' = arrived'.data
              /\ \A m \in FetchIds \ {n} : Ends(n) => fetches'[m] = fetches[m]]_vars

\* the list shown came with the answer to the first request, which arrived
\* after the answer to a later one and while a third is still waiting
C18_Witness ==
    /\ arrived.ok
    /\ arrived.seq = 1
    /\ appItems = arrived.data
    /\ appItems # <<>>
    /\ \E m \in FetchIds : m > 1 /\ fetches[m].pc = "done"
    /\ \E m \in FetchIds : m > 1 /\ fetches[m].pc = "waiting"

\* C19: when no request is in flight and the response that arrived last
\* was successful, no error message is shown.
C19_NoErrorAfterSuccess ==
    (/\ appPhase = "mounted"
     /\ \A n \in FetchIds : fetches[n].pc # "waiting"
     /\ arrived.ok) => error = <<>>

\* the titles of the model in ascending order
TitleOrder == <<"Diamond Pickaxe", "Enchanted Rune", "Unknown Item", "Wheat">>

TitleRank(title) == CHOOSE n \in 1..Len(TitleOrder) : TitleOrder[n] = title

\* a's key is at or before b's key for the field
FieldAtMost(a, b, by) ==
    IF by = "title" THEN TitleRank(a.title) <= TitleRank(b.title)
    ELSE KeyAtMost(a[by], b[by])

\* C20: for every field of the sort control, title included, the sorted
\* list is in the order of that field: ascending puts each key at or before
\* the next, descending the reverse.
C20_SortedByEveryField ==
    (/\ appPhase = "mounted"
     /\ "blacklist" \in DOMAIN filters
     /\ sortBy \in SortOptions
     /\ IsNum(appTax)) =>
        LET out == sorted
        IN \A p \in 1..(Len(out) - 1) :
              /\ sortDir = "asc" => FieldAtMost(out[p], out[p + 1], sortBy)
              /\ sortDir = "desc" => FieldAtMost(out[p + 1], out[p], sortBy)

=============================================================================
